---- MODULE Spec2Model ----
(***************************************************************************)
(* Model of app.py, the Streamlit "Automated Data Dictionary Generator".   *)
(*                                                                         *)
(* The script reruns from top to bottom after every user interaction.      *)
(* Widget values (api_key, uploaded_file, the button's value) survive a    *)
(* rerun; everything else is rebuilt by the run.  A run is modelled by its *)
(* position pc: "script" (line 24), "button" (line 32), "requesting"       *)
(* (blocked in generate_content, line 75) and "idle" (script finished,     *)
(* waiting for the user).                                                  *)
(*                                                                         *)
(* The script is synchronous: the user's next action is taken when the    *)
(* run has finished (pc = "idle"), and a run's display starts empty.       *)
(*                                                                         *)
(* Text is a sequence of chunks (strings); a column name such as           *)
(* <<"a", ",", " ", "b">> is the text "a, b".  A response text is a        *)
(* sequence of JSON tokens, which json.loads parses by recursive descent.  *)
(***************************************************************************)
EXTENDS Integers, Sequences, FiniteSets, TLC

VARIABLES api_key, uploaded_file, clicked, pc, df_columns, button_offered,
          display, calls, prompt, response, caught

vars == <<api_key, uploaded_file, clicked, pc, df_columns, button_offered,
          display, calls, prompt, response, caught>>

\* ---------------------------------------------------------------- bounds
MaxCols == 2
MaxEntries == 2

\* ------------------------------------------------------- sequence helpers
RECURSIVE Concat(_)
Concat(ss) == IF ss = <<>> THEN <<>> ELSE Head(ss) \o Concat(Tail(ss))

SeqsUpTo(S, n) == UNION {[1..k -> S] : k \in 0..n}

Range(s) == {s[i] : i \in DOMAIN s}

\* ------------------------------------------------------------ text (str)
Delimiter == <<",", " ">>

\* a join that forgets the delimiter's space
RECURSIVE JoinComma(_, _)
JoinComma(delim, items) ==
  IF items = <<>> THEN <<>>
  ELSE IF Len(items) = 1 THEN items[1]
  ELSE items[1] \o <<",">> \o JoinComma(delim, Tail(items))

\* str.join: the items separated by delim, nothing before or after
RECURSIVE Join(_, _)
Join(delim, items) ==
  IF items = <<>> THEN <<>>
  ELSE IF Len(items) = 1 THEN items[1]
  ELSE items[1] \o delim \o Join(delim, Tail(items))

Digit == <<"1", "2", "3", "4", "5", "6", "7", "8", "9">>

\* ------------------------------------------------- the uploaded CSV file
\* A file is its header row: the fields of the first line, in file order.
\* A file that cannot be decoded as CSV has readable = FALSE.
None == [present |-> FALSE, readable |-> FALSE, header |-> <<>>]

File(r, h) == [present |-> TRUE, readable |-> r, header |-> h]

FieldNames == {<<"id">>, <<"name">>, <<"a", ",", " ", "b">>}

Files == {File(TRUE, h) : h \in SeqsUpTo(FieldNames, MaxCols)}
           \cup {File(FALSE, <<f>>) : f \in FieldNames}

\* pandas' duplicate-header mangling: the second "id" becomes "id.1"
Count(counts, col) == IF col \in DOMAIN counts THEN counts[col] ELSE 0

SetCount(counts, col, n) ==
  [c \in DOMAIN counts \cup {col} |-> IF c = col THEN n ELSE counts[c]]

RECURSIVE DedupCol(_, _)
DedupCol(counts, col) ==
  LET cur == Count(counts, col) IN
  IF cur > 0
  THEN DedupCol(SetCount(counts, col, cur + 1), col \o <<".", Digit[cur]>>)
  ELSE [counts |-> SetCount(counts, col, 1), col |-> col]

RECURSIVE DedupNames(_, _)
DedupNames(counts, names) ==
  IF names = <<>> THEN <<>>
  ELSE LET r == DedupCol(counts, Head(names))
       IN  <<r.col>> \o DedupNames(r.counts, Tail(names))

\* a reader that takes whatever bytes the first line holds as the header
ReadCsvLenient(f) ==
  IF f.header = <<>>
  THEN [ok |-> FALSE, cols |-> <<>>, exc |-> "No columns to parse from file"]
  ELSE [ok |-> TRUE, cols |-> DedupNames(<<>>, f.header), exc |-> ""]

\* pd.read_csv(uploaded_file, nrows=0).columns.tolist()
ReadCsv(f) ==
  IF ~f.readable THEN [ok |-> FALSE, cols |-> <<>>, exc |-> "ParserError"]
  ELSE IF f.header = <<>>
  THEN [ok |-> FALSE, cols |-> <<>>, exc |-> "No columns to parse from file"]
  ELSE [ok |-> TRUE, cols |-> DedupNames(<<>>, f.header), exc |-> ""]

\* ------------------------------------------------------------ the prompt
PromptHead ==
  <<"\n", "You are a professional data analyst. Your task is to create a data dictionary.\n",
    "\n", "Based on this list of column names from a CSV file:\n">>

Instruction ==
  "Return the result ONLY as a clean JSON array that adheres to the provided schema."

PromptTail ==
  <<"\n", "\n",
    "Please generate a plain-English 'description' and a 'data type' guess for each column.\n",
    Instruction, " Do not include any text before or after the JSON array.", "\n">>

column_list_string(cols) == Join(Delimiter, cols)

BuildPrompt(cols) == PromptHead \o column_list_string(cols) \o PromptTail

\* ------------------------------------------------------------ JSON values
\* k is "str", "num", "null", "true", "obj" or "arr"; a dict keeps its
\* members in insertion order, as Python's does.
Str(s) == [k |-> "str", s |-> s, m |-> <<>>, a |-> <<>>]

Num == [k |-> "num", s |-> <<>>, m |-> <<>>, a |-> <<>>]

Null == [k |-> "null", s |-> <<>>, m |-> <<>>, a |-> <<>>]

True == [k |-> "true", s |-> <<>>, m |-> <<>>, a |-> <<>>]

Obj(m) == [k |-> "obj", s |-> <<>>, m |-> m, a |-> <<>>]

Arr(a) == [k |-> "arr", s |-> <<>>, m |-> <<>>, a |-> a]

Member(key, val) == [key |-> key, val |-> val]

Keys(m) == [i \in DOMAIN m |-> m[i].key]

HasKey(m, key) == \E i \in DOMAIN m : m[i].key = key

Lookup(m, key) == m[CHOOSE i \in DOMAIN m : m[i].key = key].val

\* dict[key] = val: a repeated key keeps its place and takes the new value
DictSet(m, key, val) ==
  IF HasKey(m, key)
  THEN [i \in DOMAIN m |-> IF m[i].key = key THEN Member(key, val) ELSE m[i]]
  ELSE Append(m, Member(key, val))

\* ------------------------------------------------------------ JSON text
Tok(t) == [t |-> t, s |-> <<>>]

StrTok(s) == [t |-> "str", s |-> s]

WordTok(s) == [t |-> "word", s |-> s]

IsTok(toks, i, t) == i <= Len(toks) /\ toks[i].t = t

Failure(i) == [ok |-> FALSE, val |-> Null, next |-> i]

Parsed(v, i) == [ok |-> TRUE, val |-> v, next |-> i]

RECURSIVE ParseValue(_, _), ParseElems(_, _, _), ParseMembers(_, _, _)
ParseValue(toks, i) ==
  IF i > Len(toks) THEN Failure(i)
  ELSE LET tok == toks[i] IN
    CASE tok.t = "str"  -> Parsed(Str(tok.s), i + 1)
      [] tok.t = "num"  -> Parsed(Num, i + 1)
      [] tok.t = "null" -> Parsed(Null, i + 1)
      [] tok.t = "true" -> Parsed(True, i + 1)
      [] tok.t = "["    -> IF IsTok(toks, i + 1, "]")
                           THEN Parsed(Arr(<<>>), i + 2)
                           ELSE ParseElems(toks, i + 1, <<>>)
      [] tok.t = "{"    -> IF IsTok(toks, i + 1, "}")
                           THEN Parsed(Obj(<<>>), i + 2)
                           ELSE ParseMembers(toks, i + 1, <<>>)
      [] OTHER          -> Failure(i)

\* an array parser that collects the elements in reverse
ParseElemsReversed(toks, i, acc) ==
  LET r == ParseValue(toks, i) IN
  IF ~r.ok THEN r
  ELSE IF IsTok(toks, r.next, ",")
  THEN ParseElems(toks, r.next + 1, <<r.val>> \o acc)
  ELSE IF IsTok(toks, r.next, "]")
  THEN Parsed(Arr(<<r.val>> \o acc), r.next + 1)
  ELSE Failure(r.next)

ParseElems(toks, i, acc) ==
  LET r == ParseValue(toks, i) IN
  IF ~r.ok THEN r
  ELSE IF IsTok(toks, r.next, ",")
  THEN ParseElems(toks, r.next + 1, Append(acc, r.val))
  ELSE IF IsTok(toks, r.next, "]")
  THEN Parsed(Arr(Append(acc, r.val)), r.next + 1)
  ELSE Failure(r.next)

ParseMembers(toks, i, acc) ==
  IF ~(IsTok(toks, i, "str") /\ IsTok(toks, i + 1, ":")) THEN Failure(i)
  ELSE LET r == ParseValue(toks, i + 2) IN
    IF ~r.ok THEN r
    ELSE IF IsTok(toks, r.next, ",")
    THEN ParseMembers(toks, r.next + 1, DictSet(acc, toks[i].s, r.val))
    ELSE IF IsTok(toks, r.next, "}")
    THEN Parsed(Obj(DictSet(acc, toks[i].s, r.val)), r.next + 1)
    ELSE Failure(r.next)

\* a loader that stops at the end of the first value
JsonLoadsLenient(toks) ==
  LET r == ParseValue(toks, 1) IN
  IF r.ok
  THEN [ok |-> TRUE, val |-> r.val, exc |-> ""]
  ELSE [ok |-> FALSE, val |-> Null, exc |-> "JSONDecodeError"]

\* json.loads(response.text): one value and nothing after it
JsonLoads(toks) ==
  LET r == ParseValue(toks, 1) IN
  IF r.ok /\ r.next = Len(toks) + 1
  THEN [ok |-> TRUE, val |-> r.val, exc |-> ""]
  ELSE [ok |-> FALSE, val |-> Null, exc |-> "JSONDecodeError"]

\* ---------------------------------------------------------- pd.DataFrame
NaN == [k |-> "nan", s |-> <<>>, m |-> <<>>, a |-> <<>>]

Table(cols, rows) == [columns |-> cols, rows |-> rows]

NoTable == Table(<<>>, <<>>)

IsListLike(v) == v.k \in {"obj", "arr"}

\* the keys of all the dicts, each once, in order of first appearance
RECURSIVE UniqueKeys(_, _)
UniqueKeys(seen, keys) ==
  IF keys = <<>> THEN seen
  ELSE IF Head(keys) \in Range(seen) THEN UniqueKeys(seen, Tail(keys))
  ELSE UniqueKeys(Append(seen, Head(keys)), Tail(keys))

RowOf(cols, m) ==
  [c \in Range(cols) |-> IF HasKey(m, c) THEN Lookup(m, c) ELSE NaN]

Frame(t) == [ok |-> TRUE, table |-> t, exc |-> ""]

Raise(e) == [ok |-> FALSE, table |-> NoTable, exc |-> e]

RequiredKeys == {<<"name">>, <<"type">>, <<"description">>}

\* a constructor that insists on the three required fields
ListOfDictsStrict(a) ==
  IF \E i \in DOMAIN a : a[i].k # "obj"
  THEN Raise("object has no attribute 'keys'")
  ELSE IF \E i \in DOMAIN a : \E key \in RequiredKeys : ~HasKey(a[i].m, key)
  THEN Raise("missing required field")
  ELSE LET cols == UniqueKeys(<<>>, Concat([i \in DOMAIN a |-> Keys(a[i].m)]))
       IN  Frame(Table(cols, [i \in DOMAIN a |-> RowOf(cols, a[i].m)]))

\* a list whose first element is a dict: one row per dict, one column per key
ListOfDicts(a) ==
  IF \E i \in DOMAIN a : a[i].k # "obj"
  THEN Raise("object has no attribute 'keys'")
  ELSE LET cols == UniqueKeys(<<>>, Concat([i \in DOMAIN a |-> Keys(a[i].m)]))
       IN  Frame(Table(cols, [i \in DOMAIN a |-> RowOf(cols, a[i].m)]))

\* pd.DataFrame(dictionary_list), for a value whose arrays hold scalars and
\* dicts of scalars (an array nested in an array or in a dict is not among
\* the responses drawn below)
DataFrame(v) ==
  CASE v.k = "null" -> Frame(NoTable)
    [] v.k \in {"str", "num", "true"} ->
         Raise("DataFrame constructor not properly called!")
    [] v.k = "obj" /\ v.m = <<>> -> Frame(NoTable)
    [] v.k = "obj" /\ v.m # <<>> /\ (\A i \in DOMAIN v.m : ~IsListLike(v.m[i].val)) ->
         Raise("If using all scalar values, you must pass an index")
    [] v.k = "arr" /\ v.a = <<>> -> Frame(NoTable)
    [] v.k = "arr" /\ v.a # <<>> /\ v.a[1].k = "obj" ->
         ListOfDicts(v.a)
    [] v.k = "arr" /\ v.a # <<>> /\ ~IsListLike(v.a[1])
         /\ (\A i \in DOMAIN v.a : v.a[i].k # "arr") ->
         Frame(Table(<<<<"0">>>>,
                     [i \in DOMAIN v.a |-> [c \in {<<"0">>} |-> v.a[i]]]))

\* ----------------------------------------------- what the service returns
\* json.dumps, as token text: the responses below are written with it
RECURSIVE Dumps(_), DumpsElems(_), DumpsMembers(_)
Dumps(v) ==
  CASE v.k = "str"  -> <<StrTok(v.s)>>
    [] v.k = "num"  -> <<Tok("num")>>
    [] v.k = "null" -> <<Tok("null")>>
    [] v.k = "true" -> <<Tok("true")>>
    [] v.k = "arr"  -> <<Tok("[")>> \o DumpsElems(v.a) \o <<Tok("]")>>
    [] v.k = "obj"  -> <<Tok("{")>> \o DumpsMembers(v.m) \o <<Tok("}")>>

DumpsElems(a) ==
  IF a = <<>> THEN <<>>
  ELSE IF Len(a) = 1 THEN Dumps(a[1])
  ELSE Dumps(a[1]) \o <<Tok(",")>> \o DumpsElems(Tail(a))

DumpsMembers(m) ==
  IF m = <<>> THEN <<>>
  ELSE LET one == <<StrTok(m[1].key), Tok(":")>> \o Dumps(m[1].val)
       IN  IF Len(m) = 1 THEN one
           ELSE one \o <<Tok(",")>> \o DumpsMembers(Tail(m))

Entry(n, t, d) ==
  Obj(<<Member(<<"name">>, n), Member(<<"type">>, t), Member(<<"description">>, d)>>)

EntryNames == {<<"id">>, <<"name">>}

\* entries with the three required string fields
ValidEntries ==
  {Entry(Str(n), Str(<<"Integer">>), Str(<<"Unique identifier">>)) : n \in EntryNames}

\* an entry without 'description', an entry whose 'type' is a number, a number
InvalidElements ==
  {Obj(<<Member(<<"name">>, Str(<<"id">>)), Member(<<"type">>, Str(<<"Integer">>))>>),
   Entry(Str(<<"id">>), Num, Str(<<"Unique identifier">>)),
   Num}

ValidArrays == {Arr(a) : a \in SeqsUpTo(ValidEntries, MaxEntries)}

InvalidArrays ==
  {Arr(a) : a \in SeqsUpTo(ValidEntries \cup InvalidElements, MaxEntries)}
    \ ValidArrays

NonArrays ==
  {Num, Str(<<"id">>), True, Null, Obj(<<>>),
   Entry(Str(<<"id">>), Str(<<"Integer">>), Str(<<"Unique identifier">>))}

JsonValues == ValidArrays \cup InvalidArrays \cup NonArrays

WellFormedTexts == {Dumps(v) : v \in JsonValues}

ShortArrayTexts == {Dumps(v) : v \in {w \in ValidArrays : Len(w.a) <= 1}}

\* text that is not JSON: empty, bare words, a cut-off array, a trailing
\* comma, text after the array
MalformedTexts ==
  {<<>>, <<WordTok(<<"not">>), WordTok(<<"json">>)>>}
    \cup {SubSeq(t, 1, Len(t) - 1) : t \in ShortArrayTexts}
    \cup {SubSeq(t, 1, Len(t) - 1) \o <<Tok(","), Tok("]")>> : t \in ShortArrayTexts}
    \cup {t \o <<WordTok(<<"Here you go">>)>> : t \in ShortArrayTexts}

ResponseTexts == WellFormedTexts \cup MalformedTexts

\* what generate_content raises: no network, a rejected key, no quota left
RemoteErrors ==
  {"ServiceUnavailable", "API key not valid", "ResourceExhausted"}

ApiKeys == {"", "AIza"}

\* ------------------------------------------------------------ the display
El(kind, msg, table) == [kind |-> kind, msg |-> msg, table |-> table]

Warning == El("warning", <<"Please upload a CSV file to begin.">>, NoTable)

Info(cols) ==
  El("info", <<"**Detected Columns:** ">> \o Join(Delimiter, cols)
               \o <<" (", Digit[Len(cols)], " columns found)">>, NoTable)

CsvError(e) == El("error", <<"Error reading CSV file: ", e>>, NoTable)

KeyError ==
  El("error", <<"Please enter your Google API Key in the sidebar to proceed.">>,
     NoTable)

RequestError(e) == El("error", <<"An error occurred: ", e>>, NoTable)

Hint ==
  El("error", <<"Please check your API key and the file format. If the issue persists, check the console for more details.">>,
     NoTable)

Success == El("success", <<"Data Dictionary Generated Successfully!">>, NoTable)

Dataframe(t) == El("dataframe", <<>>, t)

Shown(kind) == \E i \in DOMAIN display : display[i].kind = kind

NoResponse == [returned |-> FALSE, text |-> <<>>]

\* ------------------------------------------------------------- the script
Init ==
  /\ api_key = ""
  /\ uploaded_file = None
  /\ clicked = FALSE
  /\ pc = "script"
  /\ df_columns = <<>>
  /\ button_offered = FALSE
  /\ display = <<>>
  /\ calls = 0
  /\ prompt = <<>>
  /\ response = NoResponse
  /\ caught = ""

\* a widget changed: Streamlit runs the script again from the top
Rerun ==
  /\ pc' = "script"
  /\ df_columns' = <<>>
  /\ button_offered' = FALSE
  /\ display' = <<>>
  /\ calls' = 0
  /\ prompt' = <<>>
  /\ response' = NoResponse
  /\ caught' = ""

SetApiKey(k) ==
  /\ pc = "idle"
  /\ k # api_key
  /\ api_key' = k
  /\ clicked' = FALSE
  /\ UNCHANGED uploaded_file
  /\ Rerun

Upload(f) ==
  /\ pc = "idle"
  /\ f # uploaded_file
  /\ uploaded_file' = f
  /\ clicked' = FALSE
  /\ UNCHANGED api_key
  /\ Rerun

RemoveFile ==
  /\ pc = "idle"
  /\ uploaded_file # None
  /\ uploaded_file' = None
  /\ clicked' = FALSE
  /\ UNCHANGED api_key
  /\ Rerun

ClickGenerate ==
  /\ pc = "idle"
  /\ button_offered
  /\ clicked' = TRUE
  /\ UNCHANGED <<api_key, uploaded_file>>
  /\ Rerun

\* line 26 false: the else branch of line 98
NoFile ==
  /\ pc = "script"
  /\ uploaded_file = None
  /\ display' = Append(display, Warning)
  /\ pc' = "idle"
  /\ UNCHANGED <<api_key, uploaded_file, clicked, df_columns, button_offered,
                 calls, prompt, response, caught>>

\* lines 29-30: the header is read and shown
ReadHeader ==
  /\ pc = "script"
  /\ uploaded_file # None
  /\ ReadCsv(uploaded_file).ok
  /\ df_columns' = ReadCsv(uploaded_file).cols
  /\ display' = Append(display, Info(df_columns'))
  /\ pc' = "button"
  /\ UNCHANGED <<api_key, uploaded_file, clicked, button_offered, calls,
                 prompt, response, caught>>

\* an except branch that falls through to the button
ReadHeaderFailsOn ==
  /\ pc = "script"
  /\ uploaded_file # None
  /\ ~ReadCsv(uploaded_file).ok
  /\ display' = Append(display, CsvError(ReadCsv(uploaded_file).exc))
  /\ pc' = "button"
  /\ UNCHANGED <<api_key, uploaded_file, clicked, df_columns, button_offered,
                 calls, prompt, response, caught>>

\* line 29 raises: the outer except of lines 96-97
ReadHeaderFails ==
  /\ pc = "script"
  /\ uploaded_file # None
  /\ ~ReadCsv(uploaded_file).ok
  /\ display' = Append(display, CsvError(ReadCsv(uploaded_file).exc))
  /\ pc' = "idle"
  /\ UNCHANGED <<api_key, uploaded_file, clicked, df_columns, button_offered,
                 calls, prompt, response, caught>>

\* line 32: the button is drawn and was not clicked
ButtonIdle ==
  /\ pc = "button"
  /\ ~clicked
  /\ button_offered' = TRUE
  /\ pc' = "idle"
  /\ UNCHANGED <<api_key, uploaded_file, clicked, df_columns, display, calls,
                 prompt, response, caught>>

\* lines 32-34: clicked without a key
MissingKey ==
  /\ pc = "button"
  /\ clicked
  /\ api_key = ""
  /\ button_offered' = TRUE
  /\ display' = Append(display, KeyError)
  /\ pc' = "idle"
  /\ UNCHANGED <<api_key, uploaded_file, clicked, df_columns, calls, prompt,
                 response, caught>>

\* a handler that calls the service whatever the key
RequestAnyKey ==
  /\ pc = "button"
  /\ clicked
  /\ button_offered' = TRUE
  /\ prompt' = BuildPrompt(df_columns)
  /\ calls' = calls + 1
  /\ pc' = "requesting"
  /\ UNCHANGED <<api_key, uploaded_file, clicked, df_columns, display,
                 response, caught>>

\* lines 32-83: clicked with a key; the prompt is built and the call is made
Request ==
  /\ pc = "button"
  /\ clicked
  /\ api_key # ""
  /\ button_offered' = TRUE
  /\ prompt' = BuildPrompt(df_columns)
  /\ calls' = calls + 1
  /\ pc' = "requesting"
  /\ UNCHANGED <<api_key, uploaded_file, clicked, df_columns, display,
                 response, caught>>

\* a handler that announces success before the table is built
ParseAndDisplayEarly(text) ==
  LET loaded == JsonLoads(text)
      frame  == DataFrame(loaded.val)
  IN  IF ~loaded.ok
      THEN [exc |-> loaded.exc, shown |-> <<RequestError(loaded.exc), Hint>>]
      ELSE IF ~frame.ok
      THEN [exc |-> frame.exc,
            shown |-> <<Success, Dataframe(NoTable), RequestError(frame.exc), Hint>>]
      ELSE [exc |-> "", shown |-> <<Success, Dataframe(frame.table)>>]

\* lines 86-90, and lines 92-94 when one of them raises
ParseAndDisplay(text) ==
  LET loaded == JsonLoads(text)
      frame  == DataFrame(loaded.val)
  IN  IF ~loaded.ok
      THEN [exc |-> loaded.exc, shown |-> <<RequestError(loaded.exc), Hint>>]
      ELSE IF ~frame.ok
      THEN [exc |-> frame.exc, shown |-> <<RequestError(frame.exc), Hint>>]
      ELSE [exc |-> "", shown |-> <<Success, Dataframe(frame.table)>>]

\* a handler that rejects a table whose size is not that of the header
RemoteReturnChecked(text) ==
  LET r == ParseAndDisplay(text)
      mismatch == r.exc = "" /\ Len(r.shown[2].table.rows) # Len(df_columns)
  IN
  /\ pc = "requesting"
  /\ response' = [returned |-> TRUE, text |-> text]
  /\ caught' = IF mismatch THEN "entries do not match the columns" ELSE r.exc
  /\ display' = display \o (IF mismatch
                            THEN <<RequestError("entries do not match the columns"), Hint>>
                            ELSE r.shown)
  /\ pc' = "idle"
  /\ UNCHANGED <<api_key, uploaded_file, clicked, df_columns, button_offered,
                 calls, prompt>>

\* generate_content returns text
RemoteReturn(text) ==
  /\ pc = "requesting"
  /\ response' = [returned |-> TRUE, text |-> text]
  /\ caught' = ParseAndDisplay(text).exc
  /\ display' = display \o ParseAndDisplay(text).shown
  /\ pc' = "idle"
  /\ UNCHANGED <<api_key, uploaded_file, clicked, df_columns, button_offered,
                 calls, prompt>>

\* a handler that tries the call again after a failure
RemoteRaiseRetry(e) ==
  /\ pc = "requesting"
  /\ calls' = calls + 1
  /\ UNCHANGED <<api_key, uploaded_file, clicked, df_columns, button_offered,
                 prompt, response, caught, display, pc>>

\* generate_content raises: the inner except of lines 92-94
RemoteRaise(e) ==
  /\ pc = "requesting"
  /\ caught' = e
  /\ display' = display \o <<RequestError(e), Hint>>
  /\ pc' = "idle"
  /\ UNCHANGED <<api_key, uploaded_file, clicked, df_columns, button_offered,
                 calls, prompt, response>>

Next ==
  \/ \E k \in ApiKeys : SetApiKey(k)
  \/ \E f \in Files : Upload(f)
  \/ RemoveFile
  \/ ClickGenerate
  \/ NoFile
  \/ ReadHeader
  \/ ReadHeaderFails
  \/ ButtonIdle
  \/ MissingKey
  \/ Request
  \/ \E text \in ResponseTexts : RemoteReturn(text)
  \/ \E e \in RemoteErrors : RemoteRaise(e)

Spec == Init /\ [][Next]_vars

\* the state of the request, read off the run
Phase ==
  IF pc = "requesting" THEN "Requesting"
  ELSE IF Shown("dataframe") THEN "Succeeded"
  ELSE IF Shown("error") THEN "Failed"
  ELSE IF Shown("info") THEN "ColumnsDetected"
  ELSE "Idle"

TypeOK ==
  /\ api_key \in ApiKeys
  /\ uploaded_file \in Files \cup {None}
  /\ pc \in {"script", "button", "requesting", "idle"}
  /\ calls \in 0..1

\* ------------------------------------------------------------- the claims
Finished == pc = "idle"

\* the table of the dataframe element, when one is shown
TheTable ==
  display[CHOOSE i \in DOMAIN display : display[i].kind = "dataframe"].table

Returned(text) == Finished /\ response.returned /\ response.text = text

\* what a row shows under a key: nothing when the table has no such column
Cell(row, key) == IF key \in DOMAIN row THEN row[key] ELSE NaN

NameOf(v) == Lookup(v.m, <<"name">>)

ArraysOfObjects ==
  {v \in ValidArrays \cup InvalidArrays :
     v.a # <<>> /\ \A i \in DOMAIN v.a : v.a[i].k = "obj"}

\* C1: with an empty credential no remote call is made and no table is
\* shown, and a click on generate ends with the message asking for the key.
C1_NoCallWithoutKey ==
  api_key = "" =>
    /\ calls = 0
    /\ pc # "requesting"
    /\ ~Shown("dataframe")
    /\ (Finished /\ clicked /\ Shown("info") =>
          display = <<Info(df_columns), KeyError>>)

C1_Witness ==
  api_key = "" /\ Finished /\ clicked /\ display = <<Info(df_columns), KeyError>>

\* C2 as stated: a table is shown only for an array of objects that each
\* hold the three required string fields, and every other valid JSON text
\* ends in Failed.
C2_Original ==
  /\ Shown("dataframe") => \E v \in ValidArrays : response.text = Dumps(v)
  /\ \A v \in InvalidArrays \cup NonArrays :
       Returned(Dumps(v)) => Phase = "Failed"

\* C2 as amended: a table is shown only for valid JSON text; an array of
\* objects is shown whatever fields its objects hold, a missing field as an
\* empty cell or no column; a top-level number, string or boolean ends in Failed.
C2_OptimisticParse ==
  /\ Shown("dataframe") => response.returned /\ response.text \in WellFormedTexts
  /\ \A v \in ArraysOfObjects :
       Returned(Dumps(v)) =>
         /\ Phase = "Succeeded"
         /\ Len(TheTable.rows) = Len(v.a)
         /\ \A i \in DOMAIN v.a : \A key \in RequiredKeys :
              Cell(TheTable.rows[i], key) =
                IF HasKey(v.a[i].m, key) THEN Lookup(v.a[i].m, key) ELSE NaN
  /\ \A v \in {Num, Str(<<"id">>), True} :
       Returned(Dumps(v)) => Phase = "Failed" /\ ~Shown("success")

C2_Witness ==
  /\ Phase = "Succeeded"
  /\ TheTable.columns = <<<<"name">>, <<"type">>, <<"description">>>>
  /\ \E i \in DOMAIN TheTable.rows : TheTable.rows[i][<<"description">>] = NaN

\* C3: a response that is an array of N valid entries is shown as a table of
\* exactly N rows, row i holding the name, type and description of element i.
C3_RowsInResponseOrder ==
  \A v \in ValidArrays :
    Returned(Dumps(v)) =>
      /\ Shown("dataframe")
      /\ Len(TheTable.rows) = Len(v.a)
      /\ \A i \in DOMAIN v.a :
           /\ DOMAIN TheTable.rows[i] = RequiredKeys
           /\ \A key \in RequiredKeys : TheTable.rows[i][key] = Lookup(v.a[i].m, key)

C3_Witness ==
  /\ Finished
  /\ Shown("dataframe")
  /\ Len(TheTable.rows) = MaxEntries
  /\ TheTable.columns = <<<<"name">>, <<"type">>, <<"description">>>>
  /\ TheTable.rows[1][<<"name">>] = Str(<<"id">>)
  /\ TheTable.rows[2][<<"name">>] = Str(<<"name">>)
  /\ \A i \in DOMAIN TheTable.rows :
       TheTable.rows[i][<<"description">>] = Str(<<"Unique identifier">>)

\* C4: a response that is not JSON ends in Failed with the error message and
\* the hint; no table and no success message is shown.
C4_NotJsonFails ==
  \A text \in MalformedTexts :
    Returned(text) =>
      /\ Phase = "Failed"
      /\ ~Shown("dataframe")
      /\ ~Shown("success")
      /\ display = <<Info(df_columns), RequestError("JSONDecodeError"), Hint>>

C4_Witness ==
  /\ Returned(<<WordTok(<<"not">>), WordTok(<<"json">>)>>)
  /\ Phase = "Failed"

\* C5: Requesting is entered only from ColumnsDetected, ColumnsDetected only
\* from Idle; a request in Requesting ends in exactly one of Succeeded and
\* Failed; a terminal state is left only by a user's action, to Idle.
C5_StateOrder ==
  [][/\ (Phase' = "Requesting" => Phase = "ColumnsDetected")
     /\ (Phase' = "ColumnsDetected" /\ Phase # "ColumnsDetected" => Phase = "Idle")
     /\ (Phase = "Requesting" =>
           /\ Phase' \in {"Succeeded", "Failed"}
           /\ Shown("dataframe")' # Shown("error")'
           /\ Finished')
     /\ (Phase \in {"Succeeded", "Failed"} =>
           Finished /\ Phase' = "Idle" /\ pc' = "script")]_vars

C5_Witness == Phase = "Succeeded" /\ calls = 1 /\ Finished

\* C6: the prompt holds the column names one after the other in file order,
\* each once, with ", " between two names and nothing else around them but
\* the fixed text, which includes the instruction to return a JSON array.
RECURSIVE Offset(_, _)
Offset(cols, i) ==
  IF i = 1 THEN Len(PromptHead)
  ELSE Offset(cols, i - 1) + Len(cols[i - 1]) + Len(Delimiter)

C6_PromptHoldsColumns ==
  prompt # <<>> =>
    LET n == Len(df_columns) IN
    /\ n > 0
    /\ \A i, j \in 1..n : df_columns[i] = df_columns[j] => i = j
    /\ \A i \in 1..n :
         SubSeq(prompt, Offset(df_columns, i) + 1,
                Offset(df_columns, i) + Len(df_columns[i])) = df_columns[i]
    /\ \A i \in 1..(n - 1) :
         SubSeq(prompt, Offset(df_columns, i) + Len(df_columns[i]) + 1,
                Offset(df_columns, i + 1)) = <<",", " ">>
    /\ Len(prompt) = Offset(df_columns, n) + Len(df_columns[n]) + Len(PromptTail)
    /\ \E i \in (Offset(df_columns, n) + Len(df_columns[n]) + 1)..Len(prompt) :
         prompt[i] = Instruction

C6_Witness ==
  /\ pc = "requesting"
  /\ Len(df_columns) = MaxCols
  /\ df_columns[1] = <<"a", ",", " ", "b">>
  /\ df_columns[2] = <<"id">>

\* C7: for a file that cannot be read or has no header, the run shows the
\* CSV error and nothing else: no detected columns, no button, no request.
C7_BadFileStops ==
  uploaded_file.present /\ (~uploaded_file.readable \/ uploaded_file.header = <<>>) =>
    /\ Phase \in {"Idle", "Failed"}
    /\ pc \in {"script", "idle"}
    /\ ~button_offered
    /\ ~Shown("info")
    /\ calls = 0
    /\ (Finished => /\ Len(display) = 1
                    /\ display[1].kind = "error"
                    /\ display[1].msg[1] = "Error reading CSV file: ")

C7_Witness ==
  /\ Finished
  /\ uploaded_file.present /\ uploaded_file.readable /\ uploaded_file.header = <<>>
  /\ Phase = "Failed"

\* C8: a run makes at most one remote call; when the call or the parsing
\* fails, the run ends with the message naming the exception and the hint,
\* and with no table and no success message.
C8_OneCoarseFailurePath ==
  /\ calls <= 1
  /\ (Finished /\ calls = 1 /\ ~Shown("dataframe") =>
        /\ caught # ""
        /\ ~response.returned => caught \in RemoteErrors
        /\ display = <<Info(df_columns), RequestError(caught), Hint>>)
  /\ (Shown("dataframe") => caught = "")

C8_Witness ==
  /\ Finished
  /\ calls = 1
  /\ ~response.returned
  /\ display = <<Info(df_columns), RequestError("ResourceExhausted"), Hint>>

\* C9: a well-formed response array is shown as returned whatever the
\* detected columns are: the names in the table are the returned names.
C9_NoCorrespondenceCheck ==
  \A v \in ValidArrays :
    Returned(Dumps(v)) =>
      /\ Phase = "Succeeded"
      /\ [i \in DOMAIN TheTable.rows |-> TheTable.rows[i][<<"name">>]]
           = [i \in DOMAIN v.a |-> NameOf(v.a[i])]

C9_Witness ==
  /\ Phase = "Succeeded"
  /\ Len(df_columns) = 1
  /\ Len(TheTable.rows) = 2
  /\ TheTable.columns = <<<<"name">>, <<"type">>, <<"description">>>>
  /\ \A i \in DOMAIN TheTable.rows : TheTable.rows[i][<<"name">>] # Str(df_columns[1])

\* C10: a table and an error message are never shown together, and a table
\* is shown only in a run that read the header of an uploaded file, was
\* started by the button with a credential set, and made one remote call
\* that returned.
C10_TableOnlyAfterOneCall ==
  /\ ~(Shown("dataframe") /\ Shown("error"))
  /\ (Shown("dataframe") =>
        /\ uploaded_file.present
        /\ uploaded_file.readable
        /\ df_columns # <<>>
        /\ display[1] = Info(df_columns)
        /\ clicked
        /\ api_key # ""
        /\ calls = 1
        /\ response.returned)

C10_Witness ==
  /\ Shown("dataframe")
  /\ TheTable.rows # <<>>
  /\ Len(df_columns) = 2

====
